---- MODULE Spec2Model ----
(***************************************************************************)
(* Model of the tsfiltor filter engine: the condition builders             *)
(* (src/src/builders.ts), the primitive predicates, the operator registry, *)
(* the recursive evaluator and the bulk operations (src/src/conditions.ts),*)
(* and the optional Array.prototype extensions (src/unnamed/part_005).     *)
(*                                                                         *)
(* JavaScript values are encoded as records of one uniform shape           *)
(*   [t, s, n, keys, kids]                                                 *)
(* t is the type tag, s the string payload, n the numeric payload, keys    *)
(* the own property names of an object in insertion order and kids the     *)
(* property values (for an object) or the elements (for an array).         *)
(***************************************************************************)
EXTENDS Integers, Sequences, FiniteSets, TLC

VARIABLES
    operatorEvaluators, \* own entries of the registry object: id -> evaluator name
    registryAtCall,     \* the registry the last evaluating operation started with
    lastWriter,         \* history: id -> evaluator most recently registered under id
                        \* (the built-in one at start), as of the start of the last operation
    op,                 \* name of the operation performed by the last step
    entities,           \* record sequence passed to the last operation
    filter,             \* filter passed to the last operation
    opts,               \* options passed to findWhere: hasLimit/limit, hasOffset/offset
    ret,                \* outcome of the last operation
    arrayProto,         \* Array.prototype: property name -> the method it holds
    extCall             \* history: Array.prototype before the last
                        \* enableArrayExtensions, and the options of that call

vars ==
    <<operatorEvaluators, registryAtCall, lastWriter, op, entities, filter, opts, ret,
      arrayProto, extCall>>

----------------------------------------------------------------------------
(* Bounds *)

MaxLen == 3      \* longest record sequence
MaxLimit == 2    \* largest limit / offset given to findWhere

----------------------------------------------------------------------------
(* JavaScript values *)

V(t, s, n, keys, kids) == [t |-> t, s |-> s, n |-> n, keys |-> keys, kids |-> kids]

Undef == V("undefined", "", 0, <<>>, <<>>)
Null == V("null", "", 0, <<>>, <<>>)
Bool(b) == V("boolean", IF b THEN "true" ELSE "false", 0, <<>>, <<>>)
Num(n) == V("number", "", n, <<>>, <<>>)
Str(s) == V("string", s, 0, <<>>, <<>>)
Arr(kids) == V("array", "", 0, <<>>, kids)
Obj(keys, kids) == V("object", "", 0, keys, kids)
DateObj == V("date", "", 0, <<>>, <<>>)
RegExpObj(source) == V("regexp", source, 0, <<>>, <<>>)
\* a compiled pattern carrying a flag, n being its lastIndex property
RegExpWithFlag(source, flag, lastIndex) == V("regexp", source, lastIndex, <<flag>>, <<>>)

IsPrimitive(v) == v.t \in {"undefined", "null", "boolean", "number", "string"}

\* `key in value` for an object; arrays, dates and regexps carry none of the
\* names the evaluator probes for
HasKey(v, k) == v.t = "object" /\ \E i \in 1..Len(v.keys) : v.keys[i] = k

\* value.key : the own property, or undefined
Get(v, k) ==
    IF HasKey(v, k) THEN v.kids[CHOOSE i \in 1..Len(v.keys) : v.keys[i] = k]
    ELSE Undef

\* !!x
ToBoolean(v) ==
    CASE v.t = "undefined" -> FALSE
      [] v.t = "null" -> FALSE
      [] v.t = "boolean" -> v.s = "true"
      [] v.t = "number" -> v.n # 0
      [] v.t = "string" -> v.s # ""
      [] OTHER -> TRUE

\* x === y. Objects are compared by identity; a condition's operand and a
\* record's field are distinct objects in this model, so an object operand is
\* never identical with a field value.
StrictEquals(x, y) == IsPrimitive(x) /\ IsPrimitive(y) /\ x = y

\* the property key a value is coerced to when used as obj[value]
ToPropertyKey(v) ==
    CASE v.t = "string" -> v.s
      [] v.t = "undefined" -> "undefined"
      [] v.t = "null" -> "null"
      [] v.t = "boolean" -> v.s
      [] v.t = "number" -> ToString(v.n)
      [] OTHER -> "[object Object]"

----------------------------------------------------------------------------
(* Strings. TLA+ strings are atomic, so the strings that occur as data are  *)
(* given their characters by a table.                                       *)

StringChars(s) ==
    CASE s = "" -> <<>>
      [] s = "a" -> <<"a">>
      [] s = "b" -> <<"b">>
      [] s = "ab" -> <<"a", "b">>
      [] s = "1" -> <<"1">>
      [] s = "2" -> <<"2">>
      [] OTHER -> <<s>>

CharCode(c) ==
    CASE c = "1" -> 49
      [] c = "2" -> 50
      [] c = "a" -> 97
      [] c = "b" -> 98
      [] OTHER -> 120

\* String(value) of a scalar
ScalarString(v) ==
    CASE v.t = "string" -> v.s
      [] v.t = "number" -> ToString(v.n)
      [] v.t = "boolean" -> v.s
      [] v.t = "undefined" -> "undefined"
      [] v.t = "null" -> "null"
      [] OTHER -> "[object Object]"

\* String(value): an array joins its elements (null and undefined give the
\* empty string; arrays of the model have at most one scalar element where
\* they are converted), a pattern gives its literal
ToStringValue(v) ==
    CASE v.t = "array" /\ v.kids = <<>> -> ""
      [] v.t = "array" /\ v.kids # <<>> ->
           IF v.kids[1].t \in {"null", "undefined"} THEN "" ELSE ScalarString(v.kids[1])
      [] v.t = "regexp" -> "/" \o v.s \o "/"
      [] OTHER -> ScalarString(v)

\* ToPrimitive(value) as the relational operators apply it: a date gives its
\* time value, any other object its string
ToPrimitive(v) ==
    IF IsPrimitive(v) THEN v
    ELSE IF v.t = "date" THEN Num(0)
    ELSE Str(ToStringValue(v))

\* ToNumber(value): nan is TRUE when the result is NaN
ToNumber(v) ==
    CASE v.t = "number" -> [nan |-> FALSE, n |-> v.n]
      [] v.t = "null" -> [nan |-> FALSE, n |-> 0]
      [] v.t = "boolean" -> [nan |-> FALSE, n |-> IF v.s = "true" THEN 1 ELSE 0]
      [] v.t = "string" /\ v.s = "" -> [nan |-> FALSE, n |-> 0]
      [] v.t = "string" /\ v.s = "1" -> [nan |-> FALSE, n |-> 1]
      [] v.t = "string" /\ v.s = "2" -> [nan |-> FALSE, n |-> 2]
      [] OTHER -> [nan |-> TRUE, n |-> 0]

RECURSIVE CharsLess(_, _)
\* lexicographic order of two character sequences by code unit
CharsLess(a, b) ==
    IF b = <<>> THEN FALSE
    ELSE IF a = <<>> THEN TRUE
    ELSE IF CharCode(Head(a)) # CharCode(Head(b)) THEN CharCode(Head(a)) < CharCode(Head(b))
    ELSE CharsLess(Tail(a), Tail(b))

\* x < y for primitive operands (the abstract relational comparison)
PrimitiveLess(x, y) ==
    IF x.t = "string" /\ y.t = "string"
    THEN CharsLess(StringChars(x.s), StringChars(y.s))
    ELSE LET a == ToNumber(x)
             b == ToNumber(y)
         IN  ~a.nan /\ ~b.nan /\ a.n < b.n

\* x <= y for primitive operands: true iff neither is NaN and not y < x
PrimitiveLessEqual(x, y) ==
    IF x.t = "string" /\ y.t = "string"
    THEN ~CharsLess(StringChars(y.s), StringChars(x.s))
    ELSE LET a == ToNumber(x)
             b == ToNumber(y)
         IN  ~a.nan /\ ~b.nan /\ a.n <= b.n

\* x < y
LessThan(x, y) == PrimitiveLess(ToPrimitive(x), ToPrimitive(y))

\* x <= y
LessEqual(x, y) == PrimitiveLessEqual(ToPrimitive(x), ToPrimitive(y))

\* haystack.includes(needle) on character sequences
CharsInclude(h, n) ==
    \E i \in 0..(Len(h) - Len(n)) : SubSeq(h, i + 1, i + Len(n)) = n

CharsStartWith(h, n) == Len(n) <= Len(h) /\ SubSeq(h, 1, Len(n)) = n

CharsEndWith(h, n) == Len(n) <= Len(h) /\ SubSeq(h, Len(h) - Len(n) + 1, Len(h)) = n

\* array.includes(x): SameValueZero, which is === on the values of the model
ArrayIncludes(a, x) == \E i \in 1..Len(a.kids) : StrictEquals(a.kids[i], x)

\* value.length of a string or an array
LengthOf(v) == IF v.t = "string" THEN Len(StringChars(v.s)) ELSE Len(v.kids)

----------------------------------------------------------------------------
(* Primitive predicates. Each yields "true", "false" or "throw".            *)

B(b) == IF b THEN "true" ELSE "false"

cond_eq(x, value) == B(StrictEquals(x, value))

cond_ne(x, value) == B(~StrictEquals(x, value))

cond_lt(x, value) == B(LessThan(x, value))

cond_lte(x, value) == B(LessEqual(x, value))

cond_gt(x, value) == B(LessThan(value, x))

cond_gte(x, value) == B(LessEqual(value, x))

cond_anyOf(x, values) == IF values.t # "array" THEN "false" ELSE B(ArrayIncludes(values, x))

\* contains converting a field value that is not a string into one
cond_contains_stringifies(x, value) ==
    IF x.t = "array" THEN B(ArrayIncludes(x, value))
    ELSE B(CharsInclude(StringChars(ToStringValue(x)), StringChars(ToStringValue(value))))

cond_contains(x, value) ==
    IF x.t = "string"
    THEN B(CharsInclude(StringChars(x.s), StringChars(ToStringValue(value))))
    ELSE IF x.t = "array" THEN B(ArrayIncludes(x, value))
    ELSE "false"

cond_startsWith(x, value) ==
    IF x.t = "string"
    THEN B(CharsStartWith(StringChars(x.s), StringChars(ToStringValue(value))))
    ELSE "false"

cond_endsWith(x, value) ==
    IF x.t = "string"
    THEN B(CharsEndWith(StringChars(x.s), StringChars(ToStringValue(value))))
    ELSE "false"

cond_minLength(x, value) ==
    IF x.t = "string" \/ x.t = "array"
    THEN B(LessEqual(value, Num(LengthOf(x))))
    ELSE "false"

cond_maxLength(x, value) ==
    IF x.t = "string" \/ x.t = "array"
    THEN B(LessEqual(Num(LengthOf(x)), value))
    ELSE "false"

cond_truthy(x) == B(ToBoolean(x))

cond_isNull(x) == B(x.t = "null" \/ x.t = "undefined")

cond_isNotNull(x) == B(x.t # "null" /\ x.t # "undefined")

\* the pattern sources of the model: which compile, and what they accept
PatternCompiles(source) == source # "("

PatternTest(source, chars) ==
    CASE source = "^a" -> CharsStartWith(chars, <<"a">>)
      [] source = "b$" -> CharsEndWith(chars, <<"b">>)
      [] OTHER -> CharsInclude(chars, StringChars(source))

\* a pattern with the g or the y flag: test() starts at its lastIndex property
\* and stores there where the match ended, 0 when there is none
UsesLastIndex(pattern) == pattern.keys # <<>> /\ pattern.keys[1] \in {"g", "y"}

\* the pattern matches chars at the 0-based position p
MatchesAt(source, chars, p) ==
    CASE source = "^a" -> p = 0 /\ CharsStartWith(chars, <<"a">>)
      [] source = "b$" -> p = Len(chars) - 1 /\ CharsEndWith(chars, <<"b">>)
      [] OTHER -> /\ p + Len(StringChars(source)) <= Len(chars)
                  /\ SubSeq(chars, p + 1, p + Len(StringChars(source))) = StringChars(source)

MatchLength(source) == IF source \in {"^a", "b$"} THEN 1 ELSE Len(StringChars(source))

\* the positions test() tries, in order: from lastIndex on with the g flag,
\* lastIndex alone with the y flag
MatchPositions(pattern, chars) ==
    {p \in pattern.n..(IF pattern.keys[1] = "y" THEN pattern.n ELSE Len(chars)) :
        p <= Len(chars) /\ MatchesAt(pattern.s, chars, p)}

\* pattern.test(chars): whether it matches, and the lastIndex it leaves
TestPattern(pattern, chars) ==
    IF ~UsesLastIndex(pattern)
    THEN [found |-> PatternTest(pattern.s, chars), lastIndex |-> pattern.n]
    ELSE IF MatchPositions(pattern, chars) = {} THEN [found |-> FALSE, lastIndex |-> 0]
    ELSE [found |-> TRUE,
          lastIndex |-> (CHOOSE p \in MatchPositions(pattern, chars) :
                            \A q \in MatchPositions(pattern, chars) : p <= q)
                        + MatchLength(pattern.s)]

\* resolvePattern: the pattern source to test with, or "null"
resolvePattern(value) ==
    IF value.t = "regexp" THEN [ok |-> TRUE, source |-> value.s]
    ELSE IF value.t = "string" /\ PatternCompiles(value.s) THEN [ok |-> TRUE, source |-> value.s]
    ELSE [ok |-> FALSE, source |-> ""]

cond_matches(x, pattern) ==
    LET resolvedPattern == resolvePattern(pattern)
    IN  IF ~resolvedPattern.ok \/ x.t # "string" THEN "false"
        ELSE IF pattern.t = "regexp" THEN B(TestPattern(pattern, StringChars(x.s)).found)
        ELSE B(PatternTest(resolvedPattern.source, StringChars(x.s)))

\* the compiled pattern as matches(x, pattern) leaves it
patternAfterMatches(x, pattern) ==
    IF x.t # "string" THEN pattern
    ELSE [pattern EXCEPT !.n = TestPattern(pattern, StringChars(x.s)).lastIndex]

cond_isRecord(value) == B(value.t = "object")

\* a schema is an external capability: t = "schema", s names what safeParse
\* does; any value without a safeParse method makes the call raise
SchemaObj(name) == V("schema", name, 0, <<>>, <<>>)

cond_matchesZodSchema(value, schema) ==
    IF schema.t # "schema" THEN "throw"
    ELSE CASE schema.s = "number" -> B(value.t = "number")
           [] schema.s = "raises" -> "throw"
           [] OTHER -> "false"

----------------------------------------------------------------------------
(* Builders (src/src/builders.ts) *)

SingleCondition(field, operator, value) ==
    Obj(<<"field", "operator", "value">>, <<Str(field), Str(operator), value>>)

eq(field, value) == SingleCondition(field, "eq", value)

ne(field, value) == SingleCondition(field, "ne", value)

gt(field, value) == SingleCondition(field, "gt", value)

isNull(field) == SingleCondition(field, "isNull", Null)

\* matchesAll reading only the first entry of the record
matchesAll_firstEntryOnly(record) ==
    Obj(<<"and">>,
        <<Arr([i \in 1..(IF record.keys = <<>> THEN 0 ELSE 1) |->
                  eq(record.keys[i], record.kids[i])])>>)

\* matchesAll(record): Object.entries(record).map(eq), wrapped in { and: [...] }
matchesAll(record) ==
    Obj(<<"and">>,
        <<Arr([i \in 1..Len(record.keys) |-> eq(record.keys[i], record.kids[i])])>>)

\* and(...conditions): falsy arguments are dropped
and(conditions) == Obj(<<"and">>, <<Arr(SelectSeq(conditions, ToBoolean))>>)

\* or dropping its falsy arguments, as and does
or_dropsFalsy(conditions) == Obj(<<"or">>, <<Arr(SelectSeq(conditions, ToBoolean))>>)

\* or(...conditions): arguments are kept as given
or(conditions) == Obj(<<"or">>, <<Arr(conditions)>>)

----------------------------------------------------------------------------
(* Operator registry *)

BuiltinOperators ==
    {"eq", "ne", "lt", "lte", "gt", "gte", "anyOf", "contains", "startsWith",
     "endsWith", "minLength", "maxLength", "truthy", "isNull", "isNotNull",
     "matches", "isRecord", "matchesZodSchema"}

\* the registry as constructed: one evaluator per built-in operator, named
\* after the primitive predicate it calls
InitialEvaluators == [k \in BuiltinOperators |-> k]

\* members every object literal inherits from Object.prototype; the registry
\* is read with operatorEvaluators[key], which finds them too
InheritedMembers == {"toString", "valueOf"}

NoEvaluator == "undefined"

\* operatorEvaluators[key]
LookupEvaluator(reg, key) ==
    IF key \in DOMAIN reg THEN reg[key]
    ELSE IF key \in InheritedMembers THEN "Object.prototype." \o key
    ELSE NoEvaluator

\* registerOperator leaving an existing entry as it is
registerOperator_keepsExisting(reg, operator, evaluator) ==
    [k \in (DOMAIN reg) \cup {operator} |-> IF k \in DOMAIN reg THEN reg[k] ELSE evaluator]

\* registerOperator(operator, evaluator): operatorEvaluators[operator] = evaluator
registerOperator(reg, operator, evaluator) ==
    [k \in (DOMAIN reg) \cup {operator} |-> IF k = operator THEN evaluator ELSE reg[k]]

----------------------------------------------------------------------------
(* Evaluator functions. An invocation yields the value returned ("true",    *)
(* "false", "truthy" for a truthy value that is not a boolean, "throw" for  *)
(* a raised exception) and the registry as the invocation leaves it.        *)

\* evaluators a caller registers
CustomEvaluators == {"alwaysTrue", "alwaysFalse", "isCustom", "reregister"}

Event(ev, fn, operator, fieldValue, conditionValue, entity, condition) ==
    [ev |-> ev, fn |-> fn, operator |-> operator, fieldValue |-> fieldValue,
     conditionValue |-> conditionValue, entity |-> entity, condition |-> condition]

InvokeEvaluator(fn, fieldValue, conditionValue, entity, condition, reg) ==
    LET pure(v) == [v |-> v, reg |-> reg, events |-> <<>>]
    IN  CASE fn = "eq" -> pure(cond_eq(fieldValue, conditionValue))
          [] fn = "ne" -> pure(cond_ne(fieldValue, conditionValue))
          [] fn = "lt" -> pure(cond_lt(fieldValue, conditionValue))
          [] fn = "lte" -> pure(cond_lte(fieldValue, conditionValue))
          [] fn = "gt" -> pure(cond_gt(fieldValue, conditionValue))
          [] fn = "gte" -> pure(cond_gte(fieldValue, conditionValue))
          [] fn = "anyOf" -> pure(cond_anyOf(fieldValue, conditionValue))
          [] fn = "contains" -> pure(cond_contains(fieldValue, conditionValue))
          [] fn = "startsWith" -> pure(cond_startsWith(fieldValue, conditionValue))
          [] fn = "endsWith" -> pure(cond_endsWith(fieldValue, conditionValue))
          [] fn = "minLength" -> pure(cond_minLength(fieldValue, conditionValue))
          [] fn = "maxLength" -> pure(cond_maxLength(fieldValue, conditionValue))
          [] fn = "truthy" -> pure(cond_truthy(fieldValue))
          [] fn = "isNull" -> pure(cond_isNull(fieldValue))
          [] fn = "isNotNull" -> pure(cond_isNotNull(fieldValue))
          [] fn = "matches" ->
               [v |-> cond_matches(fieldValue, conditionValue),
                reg |-> reg,
                events |-> IF conditionValue.t = "regexp" /\ UsesLastIndex(conditionValue)
                             THEN <<Event("lastIndex", "test", "", fieldValue,
                                          patternAfterMatches(fieldValue, conditionValue),
                                          Undef, Undef)>>
                             ELSE <<>>]
          [] fn = "isRecord" -> pure(cond_isRecord(fieldValue))
          [] fn = "matchesZodSchema" -> pure(cond_matchesZodSchema(fieldValue, conditionValue))
          \* () => true
          [] fn = "alwaysTrue" -> pure("true")
          \* () => false
          [] fn = "alwaysFalse" -> pure("false")
          \* (fieldValue) => fieldValue === 'custom'
          [] fn = "isCustom" -> pure(B(StrictEquals(fieldValue, Str("custom"))))
          \* (f, v, e, condition) => { registerOperator(condition.operator, () => false); return true }
          [] fn = "reregister" ->
               LET key == ToPropertyKey(Get(condition, "operator"))
               IN  [v |-> "true",
                    reg |-> registerOperator(reg, key, "alwaysFalse"),
                    events |-> <<Event("register", "alwaysFalse", key, Undef, Undef, Undef, Undef)>>]
          \* called as a plain function, this is undefined: toString answers
          \* "[object Undefined]", valueOf raises a TypeError
          [] fn = "Object.prototype.toString" -> pure("truthy")
          [] fn = "Object.prototype.valueOf" -> pure("throw")
          [] OTHER -> pure("throw")

IsTruthy(v) == v \in {"true", "truthy"}

----------------------------------------------------------------------------
(* evaluateCondition. The result is [v, reg, events]: the value returned or *)
(* "throw", the registry afterwards, and the evaluator invocations and      *)
(* registrations that happened, in order.                                   *)

Result(v, reg, events) == [v |-> v, reg |-> reg, events |-> events]

\* isPlainRecord excluding every object that carries an operator key
isPlainRecord_excludesOperator(value) ==
    /\ ToBoolean(value)
    /\ value.t \in {"object", "schema"}
    /\ ~HasKey(value, "operator")
    /\ ~(HasKey(value, "and") \/ HasKey(value, "or"))

isPlainRecord(value) ==
    /\ ToBoolean(value)
    /\ value.t \in {"object", "array", "date", "regexp", "schema"}
    /\ value.t # "array"
    /\ value.t # "date" /\ value.t # "regexp"
    /\ ~(HasKey(value, "field") /\ HasKey(value, "operator"))
    /\ ~(HasKey(value, "and") \/ HasKey(value, "or"))

RECURSIVE evaluateCondition(_, _, _)
RECURSIVE every(_, _, _, _, _)
RECURSIVE some(_, _, _, _, _)

\* the callback of every going on after an element that is false
everyStep_goesOn(entity, array, i, events, r) ==
    IF r.v = "throw" THEN Result("throw", r.reg, events \o r.events)
    ELSE IF IsTruthy(r.v) THEN every(entity, array, i + 1, r.reg, events \o r.events)
    ELSE Result("false", every(entity, array, i + 1, r.reg, events \o r.events).reg,
                every(entity, array, i + 1, r.reg, events \o r.events).events)

\* one callback of every: r is the outcome of evaluating array[i]
everyStep(entity, array, i, events, r) ==
    IF r.v = "throw" THEN Result("throw", r.reg, events \o r.events)
    ELSE IF IsTruthy(r.v) THEN every(entity, array, i + 1, r.reg, events \o r.events)
    ELSE Result("false", r.reg, events \o r.events)

\* array.every(c => evaluateCondition(entity, c)), from index i on
every(entity, array, i, reg, events) ==
    IF i > Len(array) THEN Result("true", reg, events)
    ELSE everyStep(entity, array, i, events, evaluateCondition(entity, array[i], reg))

\* one callback of some: r is the outcome of evaluating array[i]
someStep(entity, array, i, events, r) ==
    IF r.v = "throw" THEN Result("throw", r.reg, events \o r.events)
    ELSE IF IsTruthy(r.v) THEN Result("true", r.reg, events \o r.events)
    ELSE some(entity, array, i + 1, r.reg, events \o r.events)

\* some answering true once the elements are exhausted
some_vacuouslyTrue(entity, array, i, reg, events) ==
    IF i > Len(array) THEN Result("true", reg, events)
    ELSE someStep(entity, array, i, events, evaluateCondition(entity, array[i], reg))

\* array.some(c => evaluateCondition(entity, c)), from index i on
some(entity, array, i, reg, events) ==
    IF i > Len(array) THEN Result("false", reg, events)
    ELSE someStep(entity, array, i, events, evaluateCondition(entity, array[i], reg))

\* value.every(...) / value.some(...) where value need not be an array: the
\* call raises a TypeError when it is not
everyOf(entity, value, reg) ==
    IF value.t = "array" THEN every(entity, value.kids, 1, reg, <<>>)
    ELSE Result("throw", reg, <<>>)

someOf(entity, value, reg) ==
    IF value.t = "array" THEN some(entity, value.kids, 1, reg, <<>>)
    ELSE Result("throw", reg, <<>>)

\* !evaluateCondition(entity, condition.value), r being the operand's outcome
negate(r) == IF r.v = "throw" THEN r ELSE Result(B(~IsTruthy(r.v)), r.reg, r.events)

\* evaluator(fieldValue, condition.value, entity, condition)
callEvaluator(evaluator, key, fieldValue, entity, condition, r) ==
    Result(r.v, r.reg,
           <<Event("invoke", evaluator, key, fieldValue, Get(condition, "value"),
                   entity, condition)>> \o r.events)

\* the registry lookup and the call of the evaluator found
applyEvaluator(entity, condition, reg, key, evaluator, fieldValue) ==
    IF evaluator = NoEvaluator THEN Result("false", reg, <<>>)
    ELSE callEvaluator(evaluator, key, fieldValue, entity, condition,
                       InvokeEvaluator(evaluator, fieldValue, Get(condition, "value"),
                                       entity, condition, reg))

\* the lookup reading the record under the operator instead of the field
lookupAndApply_readsOperator(entity, condition, reg, key) ==
    applyEvaluator(entity, condition, reg, key, LookupEvaluator(reg, key), Get(entity, key))

lookupAndApply(entity, condition, reg, key) ==
    applyEvaluator(entity, condition, reg, key, LookupEvaluator(reg, key),
                   Get(entity, ToPropertyKey(Get(condition, "field"))))

\* evaluateCondition looking at the `or` key before the `and` key
evaluateObject_orFirst(entity, condition, reg, operator) ==
    IF condition.t \in {"number", "string"} THEN Result("throw", reg, <<>>)
    ELSE IF HasKey(condition, "or") /\ Get(condition, "or").t = "array"
      THEN some(entity, Get(condition, "or").kids, 1, reg, <<>>)
    ELSE IF HasKey(condition, "and") /\ Get(condition, "and").t = "array"
      THEN every(entity, Get(condition, "and").kids, 1, reg, <<>>)
    ELSE IF StrictEquals(operator, Str("and"))
      THEN everyOf(entity, Get(condition, "value"), reg)
    ELSE IF StrictEquals(operator, Str("or"))
      THEN someOf(entity, Get(condition, "value"), reg)
    ELSE IF StrictEquals(operator, Str("not"))
      THEN negate(evaluateCondition(entity, Get(condition, "value"), reg))
    ELSE lookupAndApply(entity, condition, reg, ToPropertyKey(operator))

\* evaluateCondition asking the registry before it looks for a negation
evaluateObject_registryBeforeNot(entity, condition, reg, operator) ==
    IF condition.t \in {"number", "string"} THEN Result("throw", reg, <<>>)
    ELSE IF HasKey(condition, "and") /\ Get(condition, "and").t = "array"
      THEN every(entity, Get(condition, "and").kids, 1, reg, <<>>)
    ELSE IF HasKey(condition, "or") /\ Get(condition, "or").t = "array"
      THEN some(entity, Get(condition, "or").kids, 1, reg, <<>>)
    ELSE IF StrictEquals(operator, Str("and"))
      THEN everyOf(entity, Get(condition, "value"), reg)
    ELSE IF StrictEquals(operator, Str("or"))
      THEN someOf(entity, Get(condition, "value"), reg)
    ELSE IF StrictEquals(operator, Str("not")) /\ "not" \notin DOMAIN reg
      THEN negate(evaluateCondition(entity, Get(condition, "value"), reg))
    ELSE lookupAndApply(entity, condition, reg, ToPropertyKey(operator))

\* evaluateCondition from the `and` test on; operator is condition.operator
evaluateObject(entity, condition, reg, operator) ==
    \* 'and' in condition raises a TypeError when condition is not an object
    IF condition.t \in {"number", "string"} THEN Result("throw", reg, <<>>)
    ELSE IF HasKey(condition, "and") /\ Get(condition, "and").t = "array"
      THEN every(entity, Get(condition, "and").kids, 1, reg, <<>>)
    ELSE IF HasKey(condition, "or") /\ Get(condition, "or").t = "array"
      THEN some(entity, Get(condition, "or").kids, 1, reg, <<>>)
    ELSE IF StrictEquals(operator, Str("and"))
      THEN everyOf(entity, Get(condition, "value"), reg)
    ELSE IF StrictEquals(operator, Str("or"))
      THEN someOf(entity, Get(condition, "value"), reg)
    ELSE IF StrictEquals(operator, Str("not"))
      THEN negate(evaluateCondition(entity, Get(condition, "value"), reg))
    ELSE lookupAndApply(entity, condition, reg, ToPropertyKey(operator))

\* evaluateCondition once a plain record has been rewritten by matchesAll
evaluateRewritten(entity, condition, reg) ==
    evaluateObject(entity, condition, reg, Get(condition, "operator"))

\* evaluateCondition rejecting an absent filter
evaluateCondition_absentIsFalse(entity, condition, reg) ==
    IF condition.t = "null" \/ condition.t = "undefined" THEN Result("false", reg, <<>>)
    ELSE IF condition.t = "boolean" THEN Result("true", reg, <<>>)
    ELSE IF condition.t = "array" THEN every(entity, condition.kids, 1, reg, <<>>)
    ELSE evaluateRewritten(entity,
                           IF isPlainRecord(condition) THEN matchesAll(condition)
                           ELSE condition,
                           reg)

\* evaluateCondition taking the literal false as a rejection
evaluateCondition_falseIsFalse(entity, condition, reg) ==
    IF condition.t = "null" \/ condition.t = "undefined" THEN Result("true", reg, <<>>)
    ELSE IF condition.t = "boolean" THEN Result(B(ToBoolean(condition)), reg, <<>>)
    ELSE IF condition.t = "array" THEN every(entity, condition.kids, 1, reg, <<>>)
    ELSE evaluateRewritten(entity,
                           IF isPlainRecord(condition) THEN matchesAll(condition)
                           ELSE condition,
                           reg)

evaluateCondition(entity, condition, reg) ==
    IF condition.t = "null" \/ condition.t = "undefined" THEN Result("true", reg, <<>>)
    ELSE IF condition.t = "boolean" THEN Result("true", reg, <<>>)
    ELSE IF condition.t = "array" THEN every(entity, condition.kids, 1, reg, <<>>)
    ELSE evaluateRewritten(entity,
                           IF isPlainRecord(condition) THEN matchesAll(condition)
                           ELSE condition,
                           reg)

----------------------------------------------------------------------------
(* A compiled pattern is an object inside the filter: the lastIndex a call  *)
(* of test() stores in it is there when the filter is evaluated again. A    *)
(* filter of the model holds at most one pattern that uses lastIndex.       *)

RECURSIVE ReplacePatterns(_, _)
\* the value v with pattern in the place of its pattern that uses lastIndex
ReplacePatterns(v, pattern) ==
    IF v.t = "regexp" THEN (IF UsesLastIndex(v) THEN pattern ELSE v)
    ELSE [v EXCEPT !.kids = [i \in 1..Len(v.kids) |-> ReplacePatterns(v.kids[i], pattern)]]

LastIndexEvents(events) == SelectSeq(events, LAMBDA e : e.ev = "lastIndex")

\* the filter f as the calls of test() among events leave it
FilterAfter(f, events) ==
    IF LastIndexEvents(events) = <<>> THEN f
    ELSE ReplacePatterns(f, LastIndexEvents(events)[Len(LastIndexEvents(events))].conditionValue)

----------------------------------------------------------------------------
(* Bulk operations. Each yields [v, list, n, reg, events]: v is "throw"     *)
(* when an evaluation raised, list the records returned, n the number       *)
(* returned by countWhere.                                                  *)

Outcome(v, list, n, reg, events) ==
    [v |-> v, list |-> list, n |-> n, reg |-> reg, events |-> events]

RECURSIVE FilterLoop(_, _, _, _, _, _)

\* the callback of entities.filter putting the kept record first
FilterStep_prepends(ents, f, i, acc, events, r) ==
    IF r.v = "throw" THEN Outcome("throw", <<>>, 0, r.reg, events \o r.events)
    ELSE FilterLoop(ents, FilterAfter(f, r.events), i + 1, r.reg,
                    IF IsTruthy(r.v) THEN <<ents[i]>> \o acc ELSE acc,
                    events \o r.events)

\* one callback of entities.filter: r is the outcome for ents[i]
FilterStep(ents, f, i, acc, events, r) ==
    IF r.v = "throw" THEN Outcome("throw", <<>>, 0, r.reg, events \o r.events)
    ELSE FilterLoop(ents, FilterAfter(f, r.events), i + 1, r.reg,
                    IF IsTruthy(r.v) THEN Append(acc, ents[i]) ELSE acc,
                    events \o r.events)

\* entities.filter(getEvaluator(filter)), from index i on
FilterLoop(ents, f, i, reg, acc, events) ==
    IF i > Len(ents) THEN Outcome("ok", acc, Len(acc), reg, events)
    ELSE FilterStep(ents, f, i, acc, events, evaluateCondition(ents[i], f, reg))

RECURSIVE FindLoop(_, _, _, _, _)

\* one callback of entities.find / entities.some: r is the outcome for ents[i]
FindStep(ents, f, i, events, r) ==
    IF r.v = "throw" THEN Outcome("throw", <<>>, 0, r.reg, events \o r.events)
    ELSE IF IsTruthy(r.v) THEN Outcome("found", <<ents[i]>>, 0, r.reg, events \o r.events)
    ELSE FindLoop(ents, FilterAfter(f, r.events), i + 1, r.reg, events \o r.events)

\* entities.find(getEvaluator(filter)), from index i on
FindLoop(ents, f, i, reg, events) ==
    IF i > Len(ents) THEN Outcome("null", <<>>, 0, reg, events)
    ELSE FindStep(ents, f, i, events, evaluateCondition(ents[i], f, reg))

filterEntities(ents, f, reg) == FilterLoop(ents, f, 1, reg, <<>>, <<>>)

\* findFirst starting at the second record
findFirst_skipsFirst(ents, f, reg) == FindLoop(ents, f, 2, reg, <<>>)

\* entities.find(...) || null
findFirst(ents, f, reg) == FindLoop(ents, f, 1, reg, <<>>)

\* the boolean entities.some(...) answers, r being the outcome of the scan
someResult(r) ==
    Outcome(IF r.v = "throw" THEN "throw" ELSE B(r.v = "found"), <<>>, 0, r.reg, r.events)

\* matchExists answering true for an absent filter, whatever the input
matchExists_absentIsTrue(ents, f, reg) ==
    IF ~ToBoolean(f) THEN Outcome("true", <<>>, 0, reg, <<>>)
    ELSE someResult(FindLoop(ents, f, 1, reg, <<>>))

matchExists(ents, f, reg) ==
    IF ~ToBoolean(f) THEN Outcome(B(Len(ents) > 0), <<>>, 0, reg, <<>>)
    ELSE someResult(FindLoop(ents, f, 1, reg, <<>>))

\* entities.filter(...).length, r being the outcome of the filter
lengthOf(r) == Outcome(r.v, <<>>, r.n, r.reg, r.events)

\* countWhere stopping at the first accepted record
countWhere_stopsAtFirst(ents, f, reg) ==
    lengthOf(FilterLoop(IF ents = <<>> THEN ents ELSE <<ents[1]>>, f, 1, reg, <<>>, <<>>))

countWhere(ents, f, reg) == lengthOf(FilterLoop(ents, f, 1, reg, <<>>, <<>>))

\* array.slice(start, end) for 0 <= start, 0 <= end
Slice(array, start, end) ==
    SubSeq(array, start + 1, IF end < Len(array) THEN end ELSE Len(array))

Options(hasLimit, limit, hasOffset, offset) ==
    [hasLimit |-> hasLimit, limit |-> limit, hasOffset |-> hasOffset, offset |-> offset]

RECURSIVE FindWhereLoop(_, _, _, _, _, _, _, _, _)

\* findWhere collecting without the early stop
FindWherePush_scansOn(ents, f, i, hasLimit, limit, skipCount, skipped, results, r) ==
    IF hasLimit /\ Len(results) > limit
    THEN FindWhereLoop(ents, FilterAfter(f, r.events), i + 1, hasLimit, limit, skipCount, skipped,
                       SubSeq(results, 1, limit), r)
    ELSE FindWhereLoop(ents, FilterAfter(f, r.events), i + 1, hasLimit, limit, skipCount, skipped, results, r)

\* results.push(entity) and the early stop, results already holding entity
FindWherePush(ents, f, i, hasLimit, limit, skipCount, skipped, results, r) ==
    IF hasLimit /\ Len(results) >= limit
    THEN Outcome("ok", results, Len(results), r.reg, r.events)
    ELSE FindWhereLoop(ents, FilterAfter(f, r.events), i + 1, hasLimit, limit, skipCount, skipped, results, r)

\* the body of the for loop of findWhere: r is the outcome for ents[i], its
\* events already following those of the earlier records
FindWhereStep(ents, f, i, hasLimit, limit, skipCount, skipped, results, r) ==
    IF r.v = "throw" THEN Outcome("throw", <<>>, 0, r.reg, r.events)
    ELSE IF ~IsTruthy(r.v)
      THEN FindWhereLoop(ents, FilterAfter(f, r.events), i + 1, hasLimit, limit, skipCount, skipped, results, r)
    ELSE IF skipped < skipCount
      THEN FindWhereLoop(ents, FilterAfter(f, r.events), i + 1, hasLimit, limit, skipCount, skipped + 1, results, r)
    ELSE FindWherePush(ents, f, i, hasLimit, limit, skipCount, skipped,
                       Append(results, ents[i]), r)

\* r after the events that came before it
After(events, r) == Result(r.v, r.reg, events \o r.events)

\* the for loop of findWhere, from index i on; st holds the registry and the
\* events so far
FindWhereLoop(ents, f, i, hasLimit, limit, skipCount, skipped, results, st) ==
    IF i > Len(ents) THEN Outcome("ok", results, Len(results), st.reg, st.events)
    ELSE FindWhereStep(ents, f, i, hasLimit, limit, skipCount, skipped, results,
                       After(st.events, evaluateCondition(ents[i], f, st.reg)))

\* findWhere without a filter taking the limit as the end index
findWhereSlice_limitIsEnd(ents, start, o, reg) ==
    Outcome("ok", Slice(ents, start, IF o.hasLimit THEN o.limit ELSE Len(ents)),
            0, reg, <<>>)

\* findWhere without a filter: entities.slice(start, end)
findWhereSlice(ents, start, o, reg) ==
    Outcome("ok", Slice(ents, start, IF o.hasLimit THEN start + o.limit ELSE Len(ents)),
            0, reg, <<>>)

findWhere(ents, f, o, reg) ==
    IF ~ToBoolean(f)
    THEN findWhereSlice(ents, IF o.hasOffset THEN o.offset ELSE 0, o, reg)
    ELSE FindWhereLoop(ents, f, 1, o.hasLimit /\ o.limit > 0, o.limit,
                       IF o.hasOffset THEN o.offset ELSE 0, 0, <<>>,
                       Result("ok", reg, <<>>))

----------------------------------------------------------------------------
(* Array.prototype extensions. A slot of the prototype holds NoMethod when   *)
(* the property is not defined, BoundMethod when it holds a method installed *)
(* by enableArrayExtensions, ForeignMethod when it holds a method defined by *)
(* someone else, NativeMethod for a built-in of the language.                *)

ExtensionNames == {"where", "first", "exists", "count", "findWhere"}

NoMethod == "undefined"
BoundMethod == "tsfiltor"
ForeignMethod == "custom"
NativeMethod == "native"

\* const { overwrite = false } = options, options defaulting to {}
overwriteOf(options) ==
    IF options.t = "undefined" THEN FALSE
    ELSE IF Get(options, "overwrite").t = "undefined" THEN FALSE
    ELSE ToBoolean(Get(options, "overwrite"))

\* the guarded assignment always made
installMethod_always(proto, name, overwrite) == [proto EXCEPT ![name] = BoundMethod]

\* if (!Array.prototype[name] || overwrite) Array.prototype[name] = function ...
installMethod(proto, name, overwrite) ==
    IF proto[name] = NoMethod \/ overwrite THEN [proto EXCEPT ![name] = BoundMethod]
    ELSE proto

enableArrayExtensions(proto, options) ==
    installMethod(
      installMethod(
        installMethod(
          installMethod(
            installMethod(proto, "where", overwriteOf(options)),
            "first", overwriteOf(options)),
          "exists", overwriteOf(options)),
        "count", overwriteOf(options)),
      "findWhere", overwriteOf(options))

\* disableArrayExtensions deleting only the methods enableArrayExtensions installs
disableArrayExtensions_onlyBound(proto) ==
    [n \in DOMAIN proto |-> IF proto[n] = BoundMethod THEN NoMethod ELSE proto[n]]

\* delete Array.prototype.where, .first, .exists, .count, .findWhere
disableArrayExtensions(proto) ==
    [n \in DOMAIN proto |-> IF n \in ExtensionNames THEN NoMethod ELSE proto[n]]

\* the bound methods with first delegating to the filter operation
boundMethod_firstFilters(name, this, f, o, reg) ==
    CASE name = "where" -> filterEntities(this, f, reg)
      [] name = "first" -> filterEntities(this, f, reg)
      [] name = "exists" -> matchExists(this, f, reg)
      [] name = "count" -> countWhere(this, f, reg)
      [] name = "findWhere" -> findWhere(this, f, o, reg)

\* the body of the method enableArrayExtensions installs under name, called
\* on the array `this`; findWhere receives the options, the others the filter
boundMethod(name, this, f, o, reg) ==
    CASE name = "where" -> filterEntities(this, f, reg)
      [] name = "first" -> findFirst(this, f, reg)
      [] name = "exists" -> matchExists(this, f, reg)
      [] name = "count" -> countWhere(this, f, reg)
      [] name = "findWhere" -> findWhere(this, f, o, reg)

\* this[name](...) for whatever the prototype holds under name: a TypeError
\* when nothing is defined, the foreign method's own answer otherwise
callMethod(proto, name, this, f, o, reg) ==
    IF proto[name] = NoMethod THEN Outcome("throw", <<>>, 0, reg, <<>>)
    ELSE IF proto[name] = BoundMethod THEN boundMethod(name, this, f, o, reg)
    ELSE Outcome(ForeignMethod, <<>>, 0, reg, <<>>)

----------------------------------------------------------------------------
(* Inputs: the records, filters and options the operations are called with *)

Records == {Obj(<<"a">>, <<Num(1)>>), Obj(<<"a", "b">>, <<Num(2), Num(1)>>)}

RECURSIVE SeqsUpTo(_, _)
\* all sequences over S of length at most n
SeqsUpTo(S, n) ==
    IF n = 0 THEN {<<>>}
    ELSE LET shorter == SeqsUpTo(S, n - 1)
         IN  shorter \cup {Append(q, x) : q \in shorter, x \in S}

RecordSequences == SeqsUpTo(Records, MaxLen)

Scalars == {Num(1), Num(2), Undef}

\* the Negation filter of the declared shape, { operator: 'not', value: C }
Not(C) == Obj(<<"operator", "value">>, <<Str("not"), C>>)

\* a logical combinator in operator form, without and with a field key
OperatorForm(operator, S) == Obj(<<"operator", "value">>, <<Str(operator), Arr(S)>>)

OperatorFormWithField(operator, S) == SingleCondition("a", operator, Arr(S))

AbsentOrBoolean == {Null, Undef, Bool(TRUE), Bool(FALSE)}

\* Single Conditions whose operator is not a built-in one
UnknownOperatorConditions ==
    {SingleCondition("a", id, Num(1)) : id \in {"bogus", "customOp", "toString", "valueOf"}}

LeafConditions ==
    {eq("a", Num(1)), eq("a", Num(2)), eq("b", Num(1)), eq("b", Undef),
     gt("a", Num(1)), isNull("b")} \cup UnknownOperatorConditions

\* plain key/value mappings over the keys a, b
PlainMappings ==
    {Obj(<<>>, <<>>)}
      \cup {Obj(<<k>>, <<v>>) : k \in {"a", "b"}, v \in Scalars}
      \cup {Obj(<<"a", "b">>, <<v, w>>) : v \in Scalars, w \in Scalars}
      \cup {Obj(<<"operator">>, <<Str("eq")>>), Obj(<<"field">>, <<Str("a")>>)}

\* values that are not filters of any declared shape
MalformedFilters ==
    {Num(5), Num(0), Str("x"), Str(""), DateObj, RegExpObj("^a"),
     Obj(<<"and">>, <<Num(5)>>), Obj(<<"or">>, <<Num(5)>>),
     SingleCondition("a", "and", Num(5)), SingleCondition("a", "or", Num(5)),
     Obj(<<"operator", "value">>, <<Str("and"), Num(5)>>)}

\* the conditions the combinators are built from
Conditions ==
    AbsentOrBoolean \cup {eq("a", Num(1)), SingleCondition("a", "customOp", Num(1))}

ConditionSequences ==
    SeqsUpTo({eq("a", Num(1)), Null, SingleCondition("a", "customOp", Num(1))}, 2)

Negations ==
    {Not(C) : C \in Conditions \cup LeafConditions}
      \cup {Not(Not(C)) : C \in Conditions \cup LeafConditions}
      \cup {SingleCondition("a", "not", C) : C \in Conditions}

Combinators ==
    {Arr(S) : S \in ConditionSequences}
      \cup {Obj(<<"and">>, <<Arr(S)>>) : S \in ConditionSequences}
      \cup {Obj(<<"or">>, <<Arr(S)>>) : S \in ConditionSequences}
      \cup {OperatorForm(o, S) : o \in {"and", "or"}, S \in ConditionSequences}
      \cup {OperatorFormWithField(o, S) : o \in {"and", "or"}, S \in ConditionSequences}
      \cup {and(<<C1, C2>>) : C1 \in Conditions, C2 \in Conditions}
      \cup {or(<<C1, C2>>) : C1 \in Conditions, C2 \in Conditions}

BooleanLiterals == {Bool(TRUE), Bool(FALSE)}

\* boolean literals at nested positions: elements of a sequence, of and, of or
BooleanNestings ==
    LET S == (SeqsUpTo(BooleanLiterals, 2) \ {<<>>})
               \cup {<<b, C>> : b \in BooleanLiterals,
                               C \in {eq("a", Num(2)), SingleCondition("a", "customOp", Num(1))}}
    IN  {Arr(q) : q \in S} \cup {Obj(<<"and">>, <<Arr(q)>>) : q \in S}
          \cup {Obj(<<"or">>, <<Arr(q)>>) : q \in S}

\* records with fields of the other types: string, array, null, object
TypedRecords ==
    {Obj(<<"a", "b">>, <<Str("ab"), Arr(<<Num(1)>>)>>),
     Obj(<<"a", "b">>, <<Null, Obj(<<>>, <<>>)>>)}

\* records whose field a is a string
TextRecords == {Obj(<<"a">>, <<Str("ab")>>), Obj(<<"a">>, <<Str("b")>>)}

\* the records evaluateCondition is called with
EvalRecords == Records \cup TypedRecords \cup TextRecords

\* condition values of every kind the predicates tell apart
PredicateOperands ==
    {Num(1), Num(2), Str("a"), Str("b"), Str("("), Arr(<<Num(1)>>), RegExpObj("^a"),
     Undef, SchemaObj("number")}

\* Single Conditions over each of the built-in operators
PredicateConditions ==
    {SingleCondition(f, id, v) : f \in {"a", "b"}, id \in BuiltinOperators,
                                 v \in PredicateOperands}

\* objects carrying the keys of several shapes at once
MixedShapes ==
    LET S1 == Arr(<<eq("a", Num(1))>>)
        S2 == Arr(<<eq("a", Num(2))>>)
    IN  {Obj(<<"and", "or">>, <<S1, S2>>), Obj(<<"and", "or">>, <<S2, S1>>),
         Obj(<<"or", "and">>, <<S1, S2>>), Obj(<<"or", "and">>, <<S2, S1>>),
         Obj(<<"and", "or">>, <<Num(5), S1>>), Obj(<<"and", "or">>, <<S1, Num(5)>>),
         Obj(<<"and", "field", "operator", "value">>, <<S1, Str("a"), Str("eq"), Num(2)>>),
         Obj(<<"and", "field", "operator", "value">>, <<S2, Str("a"), Str("eq"), Num(1)>>),
         Obj(<<"and", "field", "operator", "value">>, <<Num(5), Str("a"), Str("eq"), Num(1)>>),
         Obj(<<"or", "operator", "value">>, <<S1, Str("and"), S2>>),
         Obj(<<"or", "operator", "value">>, <<S2, Str("and"), S1>>),
         Obj(<<"or", "field", "operator", "value">>, <<Null, Str("a"), Str("not"), eq("a", Num(1))>>),
         Obj(<<"or", "field", "operator", "value">>, <<S2, Str("a"), Str("not"), eq("a", Num(2))>>)}

\* compiled patterns with flags: g and y use lastIndex, i does not
FlaggedPatterns ==
    {RegExpWithFlag("a", "g", 0), RegExpWithFlag("a", "g", 1), RegExpWithFlag("b", "g", 0),
     RegExpWithFlag("a", "y", 0), RegExpWithFlag("a", "i", 0)}

\* filters built from matches with a compiled pattern
PatternFilters ==
    {SingleCondition("a", "matches", P) : P \in FlaggedPatterns}
      \cup {Arr(<<SingleCondition("a", "matches", P)>>) : P \in FlaggedPatterns}

TextSequences == SeqsUpTo(TextRecords, MaxLen)

EvalFilters ==
    AbsentOrBoolean \cup LeafConditions \cup PlainMappings \cup MalformedFilters
      \cup Negations \cup Combinators \cup BooleanNestings \cup PredicateConditions
      \cup MixedShapes \cup PatternFilters

BulkFilters ==
    {Undef, Null, Bool(FALSE), Bool(TRUE), eq("a", Num(1)), Obj(<<"a">>, <<Num(2)>>),
     SingleCondition("a", "customOp", Num(1)), SingleCondition("a", "toString", Num(1)),
     or(<<eq("a", Num(2)), SingleCondition("a", "customOp", Num(1))>>),
     Num(5)}

\* the filters findWhere is called with
PageFilters ==
    {Undef, Bool(FALSE), eq("a", Num(1)), SingleCondition("a", "customOp", Num(1)),
     Obj(<<"a">>, <<Num(2)>>)}

OptionValues ==
    {Options(hl, IF hl THEN l ELSE 0, ho, IF ho THEN o ELSE 0) :
        hl \in BOOLEAN, l \in 0..MaxLimit, ho \in BOOLEAN, o \in 0..MaxLimit}

NoOptions == Options(FALSE, 0, FALSE, 0)

\* the registerOperator(id, evaluator) calls made: a built-in id overridden,
\* a new id registered and registered again, a reserved id registered
Registrations ==
    {<<"eq", "alwaysTrue">>, <<"customOp", "alwaysTrue">>, <<"customOp", "reregister">>,
     <<"not", "alwaysTrue">>}

\* registerOperator calls under each of the reserved ids, and under a new id
ReservedRegistrations ==
    {<<"and", "alwaysFalse">>, <<"or", "alwaysTrue">>, <<"not", "alwaysTrue">>,
     <<"customOp", "alwaysTrue">>}

\* the filters evaluated after those calls: the combinators in every form
ReservedFilters == Negations \cup Combinators \cup MixedShapes

\* the options enableArrayExtensions is called with: omitted, {}, and
\* { overwrite: false / true }
EnableOptions ==
    {Undef, Obj(<<>>, <<>>), Obj(<<"overwrite">>, <<Bool(FALSE)>>),
     Obj(<<"overwrite">>, <<Bool(TRUE)>>)}

\* the filters the array methods are called with, Undef for an omitted one
MethodFilters == {Undef, eq("a", Num(1)), Obj(<<"a">>, <<Num(2)>>)}

\* the options the findWhere method is called with, NoOptions for omitted ones
MethodOptions == {NoOptions, Options(TRUE, 1, FALSE, 0), Options(TRUE, 1, TRUE, 1)}

\* Array.prototype before anything is installed
InitialArrayProto ==
    [n \in ExtensionNames \cup {"filter"} |-> IF n = "filter" THEN NativeMethod ELSE NoMethod]

----------------------------------------------------------------------------
(* State machine *)

Returned(r, list, n) == [v |-> r.v, list |-> list, n |-> n, events |-> r.events]

NothingReturned == [v |-> "none", list |-> <<>>, n |-> 0, events |-> <<>>]

\* history: h with id overwritten by fn
Overwrite(h, id, fn) == [k \in (DOMAIN h) \cup {id} |-> IF k = id THEN fn ELSE h[k]]

RECURSIVE Replay(_, _)
\* history: h after the registrations among events
Replay(h, events) ==
    IF events = <<>> THEN h
    ELSE LET e == Head(events)
         IN  Replay(IF e.ev = "register" THEN Overwrite(h, e.operator, e.fn) ELSE h,
                    Tail(events))

Init ==
    /\ operatorEvaluators = InitialEvaluators
    /\ registryAtCall = InitialEvaluators
    /\ lastWriter = [k \in BuiltinOperators |-> k]
    /\ op = "init"
    /\ entities = <<>>
    /\ filter = Undef
    /\ opts = NoOptions
    /\ ret = NothingReturned
    /\ arrayProto = InitialArrayProto
    /\ extCall = [before |-> InitialArrayProto, options |-> Undef]

RegisterOperator(id, fn) ==
    /\ operatorEvaluators' = registerOperator(operatorEvaluators, id, fn)
    /\ registryAtCall' = operatorEvaluators'
    /\ lastWriter' = Overwrite(Replay(lastWriter, ret.events), id, fn)
    /\ op' = "registerOperator"
    /\ entities' = <<>>
    /\ filter' = Undef
    /\ opts' = NoOptions
    /\ ret' = NothingReturned
    /\ UNCHANGED <<arrayProto, extCall>>

\* the part every evaluating operation has in common
Called(name, ents, f, o, r) ==
    /\ op' = name
    /\ entities' = ents
    /\ filter' = f
    /\ opts' = o
    /\ operatorEvaluators' = r.reg
    /\ registryAtCall' = operatorEvaluators
    /\ lastWriter' = Replay(lastWriter, ret.events)
    /\ UNCHANGED <<arrayProto, extCall>>

EvaluateCondition(entity, f) ==
    LET r == evaluateCondition(entity, f, operatorEvaluators)
    IN  /\ Called("evaluateCondition", <<entity>>, f, NoOptions, r)
        /\ ret' = Returned(r, <<>>, 0)

FilterEntities(ents, f) ==
    LET r == filterEntities(ents, f, operatorEvaluators)
    IN  /\ Called("filterEntities", ents, f, NoOptions, r)
        /\ ret' = Returned(r, r.list, r.n)

FindFirst(ents, f) ==
    LET r == findFirst(ents, f, operatorEvaluators)
    IN  /\ Called("findFirst", ents, f, NoOptions, r)
        /\ ret' = Returned(r, r.list, r.n)

MatchExists(ents, f) ==
    LET r == matchExists(ents, f, operatorEvaluators)
    IN  /\ Called("matchExists", ents, f, NoOptions, r)
        /\ ret' = Returned(r, r.list, r.n)

CountWhere(ents, f) ==
    LET r == countWhere(ents, f, operatorEvaluators)
    IN  /\ Called("countWhere", ents, f, NoOptions, r)
        /\ ret' = Returned(r, r.list, r.n)

FindWhere(ents, f, o) ==
    LET r == findWhere(ents, f, o, operatorEvaluators)
    IN  /\ Called("findWhere", ents, f, o, r)
        /\ ret' = Returned(r, r.list, r.n)

\* The outcome of a call stays recorded in the state the call leaves; the
\* registry it leaves is carried on by the next registerOperator, after which
\* the next call is made.
Idle == op \in {"init", "registerOperator"}

Next ==
    \/ \E reg \in Registrations : RegisterOperator(reg[1], reg[2])
    \/ Idle /\ \E entity \in EvalRecords, f \in EvalFilters : EvaluateCondition(entity, f)
    \/ Idle /\ \E ents \in RecordSequences, f \in BulkFilters : FilterEntities(ents, f)
    \/ Idle /\ \E ents \in TextSequences, f \in PatternFilters : FilterEntities(ents, f)
    \/ Idle /\ \E ents \in RecordSequences, f \in BulkFilters : FindFirst(ents, f)
    \/ Idle /\ \E ents \in RecordSequences, f \in BulkFilters : MatchExists(ents, f)
    \/ Idle /\ \E ents \in RecordSequences, f \in BulkFilters : CountWhere(ents, f)
    \/ Idle /\ \E ents \in RecordSequences, f \in PageFilters, o \in OptionValues :
                   FindWhere(ents, f, o)

Spec == Init /\ [][Next]_vars

NextReserved ==
    \/ \E reg \in ReservedRegistrations : RegisterOperator(reg[1], reg[2])
    \/ Idle /\ \E entity \in Records, f \in ReservedFilters : EvaluateCondition(entity, f)

\* the evaluator after registrations under the reserved identifiers
SpecReserved == Init /\ [][NextReserved]_vars

\* the part the operations on Array.prototype have in common
PrototypeChanged(name) ==
    /\ op' = name
    /\ entities' = <<>>
    /\ filter' = Undef
    /\ opts' = NoOptions
    /\ ret' = NothingReturned
    /\ UNCHANGED <<operatorEvaluators, registryAtCall, lastWriter>>

\* Array.prototype[name] = function () { return 'custom' }, by other code
AssignForeignMethod(name) ==
    /\ arrayProto' = [arrayProto EXCEPT ![name] = ForeignMethod]
    /\ UNCHANGED extCall
    /\ PrototypeChanged("assign")

EnableArrayExtensions(options) ==
    /\ arrayProto' = enableArrayExtensions(arrayProto, options)
    /\ extCall' = [before |-> arrayProto, options |-> options]
    /\ PrototypeChanged("enableArrayExtensions")

DisableArrayExtensions ==
    /\ arrayProto' = disableArrayExtensions(arrayProto)
    /\ UNCHANGED extCall
    /\ PrototypeChanged("disableArrayExtensions")

\* array[name](f) and, for findWhere, array.findWhere({ filter: f, ...o })
CallArrayMethod(name, array, f, o) ==
    LET r == callMethod(arrayProto, name, array, f, o, operatorEvaluators)
    IN  /\ Called("Array.prototype." \o name, array, f, o, r)
        /\ ret' = Returned(r, r.list, r.n)

\* The methods are called on the untouched prototype and right after
\* enableArrayExtensions: what a call does depends on the prototype only, and
\* these are the states in which each content of a slot first appears.
PrototypeIdle == op \in {"init", "enableArrayExtensions"}

NextExtensions ==
    \/ \E name \in ExtensionNames : AssignForeignMethod(name)
    \/ \E options \in EnableOptions : EnableArrayExtensions(options)
    \/ DisableArrayExtensions
    \/ PrototypeIdle /\ \E name \in ExtensionNames \ {"findWhere"},
                            array \in RecordSequences, f \in MethodFilters :
                          CallArrayMethod(name, array, f, NoOptions)
    \/ PrototypeIdle /\ \E array \in RecordSequences, f \in MethodFilters, o \in MethodOptions :
                          CallArrayMethod("findWhere", array, f, o)

\* the extension layer on its own, the registry holding the built-in evaluators
SpecExtensions == Init /\ [][NextExtensions]_vars

----------------------------------------------------------------------------
(* Claims *)

Evaluated == op = "evaluateCondition"

\* the record the last evaluateCondition was called with
Entity == entities[1]

\* C1: findWhere with a filter, an offset o and a limit l (0 included) returns
\* filterEntities(R, F).slice(o, o + l).
C1_PaginationConsistency ==
    (op = "findWhere" /\ filter.t # "undefined" /\ opts.hasLimit /\ opts.hasOffset) =>
        LET all == filterEntities(entities, filter, registryAtCall)
        IN  IF all.v = "throw" THEN ret.v = "throw"
            ELSE /\ ret.v = "ok"
                 /\ ret.list = Slice(all.list, opts.offset, opts.offset + opts.limit)

\* C2: evaluateCondition is total: whatever the filter value, it returns a
\* boolean and never raises.
C2_EvaluateIsTotal == Evaluated => ret.v \in {"true", "false"}

\* C3: the operator form { operator: 'and' | 'or', value: S } of a combinator,
\* with or without a field key, evaluates like the key form { and: S } / { or: S }.
C3_OperatorFormEqualsKeyForm ==
    (/\ Evaluated
     /\ filter.t = "object"
     /\ ~HasKey(filter, "and") /\ ~HasKey(filter, "or")
     /\ Get(filter, "operator") \in {Str("and"), Str("or")}
     /\ Get(filter, "value").t = "array") =>
        ret.v = evaluateCondition(Entity,
                                  Obj(<<Get(filter, "operator").s>>, <<Get(filter, "value")>>),
                                  registryAtCall).v

IsDeclaredNegation(f) ==
    f.t = "object" /\ f.keys = <<"operator", "value">> /\ Get(f, "operator") = Str("not")

\* C4: { operator: 'not', value: C } evaluates to the negation of C.
C4_NegationNegates ==
    (Evaluated /\ IsDeclaredNegation(filter)) =>
        LET operand == evaluateCondition(Entity, Get(filter, "value"), registryAtCall)
        IN  operand.v \in {"true", "false"} => ret.v = B(operand.v = "false")

\* C5: NOT(NOT(C)) evaluates like C, for every well-formed C.
C5_DoubleNegation ==
    (/\ Evaluated
     /\ IsDeclaredNegation(filter)
     /\ IsDeclaredNegation(Get(filter, "value"))) =>
        LET operand == evaluateCondition(Entity, Get(Get(filter, "value"), "value"),
                                         registryAtCall)
        IN  operand.v \in {"true", "false"} => ret.v = operand.v

\* a && b / a || b of two evaluations made one after the other: the second is
\* made, with the registry the first leaves, only when the first does not decide
EvaluateBoth(entity, C1, C2, reg, decides) ==
    LET first == evaluateCondition(entity, C1, reg)
    IN  IF first.v = "throw" \/ IsTruthy(first.v) = decides THEN first
        ELSE evaluateCondition(entity, C2, first.reg)

SameTruth(v, w) == (v = "throw" /\ w = "throw") \/ (v # "throw" /\ w # "throw" /\ IsTruthy(v) = IsTruthy(w))

\* C6: the builders and / or: evaluating and(C1, C2) gives evaluate(C1) &&
\* evaluate(C2), evaluating or(C1, C2) gives evaluate(C1) || evaluate(C2), for
\* all conditions, null, undefined and boolean literals included.
C6_AndOrBuilders ==
    Evaluated =>
        \A C1 \in Conditions, C2 \in Conditions :
            /\ filter = and(<<C1, C2>>) =>
                 SameTruth(ret.v, EvaluateBoth(Entity, C1, C2, registryAtCall, FALSE).v)
            /\ filter = or(<<C1, C2>>) =>
                 SameTruth(ret.v, EvaluateBoth(Entity, C1, C2, registryAtCall, TRUE).v)

C6_Witness ==
    /\ Evaluated
    /\ filter = or(<<Null, SingleCondition("a", "customOp", Num(1))>>)
    /\ LookupEvaluator(registryAtCall, "customOp") = NoEvaluator
    /\ ret.v = "true"

\* a plain key/value mapping: an object without an `and` or `or` key that
\* does not carry both `field` and `operator`
IsPlainMapping(f) ==
    /\ f.t = "object"
    /\ ~HasKey(f, "and") /\ ~HasKey(f, "or")
    /\ ~(HasKey(f, "field") /\ HasKey(f, "operator"))

ReservedOperators == {"and", "or", "not"}

IsSingleCondition(f) ==
    f.t = "object" /\ f.keys = <<"field", "operator", "value">> /\ Get(f, "operator").t = "string"

\* C8: a Single Condition whose operator has no registered entry (and is not
\* reserved) evaluates to false, and no evaluator function is invoked.
C8_UnknownOperatorIsFalse ==
    (/\ Evaluated
     /\ IsSingleCondition(filter)
     /\ Get(filter, "operator").s \notin ReservedOperators
     /\ Get(filter, "operator").s \notin DOMAIN lastWriter) =>
        ret.v = "false" /\ ret.events = <<>>

\* the evaluator last registered under id when event number j of the last
\* operation happened
WriterBefore(j, id) == Replay(lastWriter, SubSeq(ret.events, 1, j - 1))[id]

\* every invocation made by the last operation used the evaluator last
\* registered under the operator it was looked up by
InvocationsUseLastWriter ==
    \A j \in 1..Len(ret.events) :
        (ret.events[j].ev = "invoke" /\ ret.events[j].operator \in DOMAIN lastWriter) =>
            ret.events[j].fn = WriterBefore(j, ret.events[j].operator)

\* the evaluation of a Single Condition starts by invoking the evaluator last
\* registered under its operator
SingleConditionInvokesLastWriter ==
    (Evaluated /\ IsSingleCondition(filter) /\ Get(filter, "operator").s \in DOMAIN lastWriter) =>
        /\ ret.events # <<>>
        /\ ret.events[1].ev = "invoke"
        /\ ret.events[1].fn = lastWriter[Get(filter, "operator").s]

\* C9 as stated: after registerOperator(id, fn2), every evaluation of a Single
\* Condition with operator id uses fn2, whatever id is.
C9_LastWriterWins == InvocationsUseLastWriter /\ SingleConditionInvokesLastWriter

\* C9 amended: the same for every id other than the reserved and, or, not,
\* whose conditions are resolved without the registry.
C9_LastWriterWinsUnlessReserved ==
    /\ InvocationsUseLastWriter
    /\ (Evaluated /\ IsSingleCondition(filter)
          /\ Get(filter, "operator").s \in DOMAIN lastWriter
          /\ Get(filter, "operator").s \notin ReservedOperators) =>
            /\ ret.events # <<>>
            /\ ret.events[1].ev = "invoke"
            /\ ret.events[1].fn = lastWriter[Get(filter, "operator").s]

\* a bulk operation in which an evaluator registered another one under its
\* own id, and a later record was evaluated with the new one
C9_Witness ==
    /\ op = "filterEntities"
    /\ Len(ret.events) >= 3
    /\ ret.events[1].fn = "reregister"
    /\ ret.events[2].ev = "register"
    /\ ret.events[3].ev = "invoke" /\ ret.events[3].fn = "alwaysFalse"
    /\ ret.events[3].operator = "customOp"

\* C10: with an absent filter, filterEntities returns the records given, in
\* order, and matchExists tells whether there is any record.
C10_AbsentFilterIsIdentity ==
    /\ (op = "filterEntities" /\ filter \in {Null, Undef}) =>
          ret.v = "ok" /\ ret.list = entities
    /\ (op = "matchExists" /\ filter \in {Null, Undef}) =>
          ret.v = B(Len(entities) > 0)

C10_Witness ==
    /\ op = "filterEntities"
    /\ filter = Null
    /\ Len(entities) = MaxLen
    /\ ret.list = entities

RECURSIVE Evaluations(_, _, _)

EvaluationsFrom(ents, f, r) ==
    IF r.v = "throw" THEN <<r>>
    ELSE <<r>> \o Evaluations(Tail(ents), FilterAfter(f, r.events), r.reg)

\* the outcomes of evaluateCondition(r, f) for the records r of ents taken in
\* order, each started with the registry and the filter the one before
\* leaves, up to and including the first that raises
Evaluations(ents, f, reg) ==
    IF ents = <<>> THEN <<>>
    ELSE EvaluationsFrom(ents, f, evaluateCondition(Head(ents), f, reg))

\* the evaluations of the records of the last bulk operation
Scan == Evaluations(entities, filter, registryAtCall)

\* the scan met a record whose evaluation raises
Raised == Scan # <<>> /\ Scan[Len(Scan)].v = "throw"

\* the positions of the records the filter accepts
Accepted == {i \in 1..Len(Scan) : IsTruthy(Scan[i].v)}

Smallest(S) == CHOOSE i \in S : \A j \in S : i <= j

\* the k-th smallest element of S
Nth(S, k) == CHOOSE i \in S : Cardinality({j \in S : j <= i}) = k

\* C11: matchExists(R, F) is true exactly when some record of R satisfies
\* evaluateCondition(r, F), i.e. exactly when findFirst(R, F) is not null, for
\* absent, boolean and all other filters; it is false for the empty sequence.
C11_ExistsIffSomeAccepted ==
    op = "matchExists" =>
        /\ ret.v = (IF Accepted # {} THEN "true" ELSE IF Raised THEN "throw" ELSE "false")
        /\ LET first == findFirst(entities, filter, registryAtCall)
           IN  /\ ret.v = "true" <=> first.v = "found"
               /\ ret.v = "false" <=> first.v = "null"
        /\ entities = <<>> => ret.v = "false"

C11_Witness ==
    /\ op = "matchExists"
    /\ filter = eq("a", Num(1))
    /\ Len(entities) = 2
    /\ Accepted = {2}
    /\ ret.v = "true"

\* C12: findFirst(R, F) returns the record at the smallest index whose
\* evaluation is true, null when no record is accepted, and the first element
\* of filterEntities(R, F) when that is not empty.
C12_FindFirstIsSmallestAccepted ==
    op = "findFirst" =>
        /\ IF Accepted # {}
             THEN ret.v = "found" /\ ret.list = <<entities[Smallest(Accepted)]>>
             ELSE ret.v = (IF Raised THEN "throw" ELSE "null") /\ ret.list = <<>>
        /\ LET all == filterEntities(entities, filter, registryAtCall)
           IN  (all.v = "ok" /\ all.list # <<>>) =>
                   ret.v = "found" /\ ret.list = <<Head(all.list)>>

C12_Witness ==
    /\ op = "findFirst"
    /\ Len(entities) = 3
    /\ Accepted = {2, 3}
    /\ ret.list = <<entities[2]>>

\* the records the evaluators were invoked with by the last operation, in order
InvokedEntities ==
    LET invocations == SelectSeq(ret.events, LAMBDA e : e.ev = "invoke")
    IN  [j \in 1..Len(invocations) |-> invocations[j].entity]

\* C13: countWhere(R, F) is the number of positions of R whose evaluation is
\* true, i.e. the length of filterEntities(R, F); it lies in 0..Len(R) and
\* every record is evaluated: there is no early exit.
C13_CountIsNumberAccepted ==
    (op = "countWhere" /\ ~Raised) =>
        /\ ret.v = "ok"
        /\ ret.n = Cardinality(Accepted)
        /\ ret.n = Len(filterEntities(entities, filter, registryAtCall).list)
        /\ ret.n \in 0..Len(entities)
        /\ (IsSingleCondition(filter) /\ Get(filter, "operator").s \in DOMAIN registryAtCall) =>
               InvokedEntities = entities

C13_Witness ==
    /\ op = "countWhere"
    /\ filter = eq("a", Num(1))
    /\ Len(entities) = 3
    /\ Accepted = {1}
    /\ ret.n = 1
    /\ InvokedEntities = entities

\* C14: filterEntities(R, F) is the subsequence of R made of exactly the
\* records whose evaluation is true: order and multiplicity kept, nothing added.
C14_FilterIsSubsequence ==
    (op = "filterEntities" /\ ~Raised) =>
        /\ ret.v = "ok"
        /\ Len(ret.list) = Cardinality(Accepted)
        /\ \A k \in 1..Len(ret.list) : ret.list[k] = entities[Nth(Accepted, k)]

C14_Witness ==
    /\ op = "filterEntities"
    /\ Len(entities) = 3
    /\ entities[1] = entities[3]
    /\ Accepted = {1, 3}
    /\ ret.list = <<entities[1], entities[1]>>

\* C15: without a filter, findWhere is a slice of R in order: R[start ..
\* start + limit) with start the offset or 0, to the end of R when the limit
\* is absent, and empty for limit = 0.
C15_NoFilterIsSlice ==
    (op = "findWhere" /\ filter = Undef) =>
        LET start == IF opts.hasOffset THEN opts.offset ELSE 0
            stop == IF opts.hasLimit /\ start + opts.limit < Len(entities)
                      THEN start + opts.limit ELSE Len(entities)
        IN  /\ ret.v = "ok"
            /\ Len(ret.list) = (IF stop > start THEN stop - start ELSE 0)
            /\ \A k \in 1..Len(ret.list) : ret.list[k] = entities[start + k]
            /\ (opts.hasLimit /\ opts.limit = 0) => ret.list = <<>>
            /\ ret.events = <<>>

C15_Witness ==
    /\ op = "findWhere"
    /\ filter = Undef
    /\ Len(entities) = 3
    /\ entities[2] # entities[3]
    /\ opts = Options(TRUE, 1, TRUE, 1)
    /\ ret.list = <<entities[2]>>

AllBoolean(S) == \A i \in 1..Len(S) : S[i] \in BooleanLiterals

\* C20: a boolean literal filter evaluates to true, true and false alike, at
\* the top level and as an element of a sequence, of and, of or; so
\* filterEntities(R, false) = R.
C20_BooleanLiteralIsTrue ==
    /\ (Evaluated /\ filter \in BooleanLiterals) => ret.v = "true"
    /\ (Evaluated /\ filter.t = "array" /\ AllBoolean(filter.kids)) => ret.v = "true"
    /\ (Evaluated /\ filter.t = "object" /\ filter.keys = <<"and">>
          /\ filter.kids[1].t = "array" /\ AllBoolean(filter.kids[1].kids)) => ret.v = "true"
    /\ (Evaluated /\ filter.t = "object" /\ filter.keys = <<"or">>
          /\ filter.kids[1].t = "array" /\ filter.kids[1].kids # <<>>
          /\ filter.kids[1].kids[1] \in BooleanLiterals) => ret.v = "true"
    /\ (Evaluated /\ filter.t = "array" /\ Len(filter.kids) = 2
          /\ filter.kids[1] \in BooleanLiterals) =>
            SameTruth(ret.v, evaluateCondition(Entity, filter.kids[2], registryAtCall).v)
    /\ (op = "filterEntities" /\ filter \in BooleanLiterals) =>
            ret.v = "ok" /\ ret.list = entities

C20_Witness ==
    /\ Evaluated
    /\ filter = Obj(<<"or">>, <<Arr(<<Bool(FALSE), eq("a", Num(2))>>)>>)
    /\ Entity = Obj(<<"a">>, <<Num(1)>>)
    /\ ret.v = "true"

\* C16, as an action property: disableArrayExtensions called right after
\* enableArrayExtensions(options) leaves the five slots as they were before
\* enableArrayExtensions, whatever they held and whatever the options.
C16_EnableDisableRestores ==
    [][(op = "enableArrayExtensions" /\ op' = "disableArrayExtensions") =>
          arrayProto' = extCall.before]_vars

\* a call of the method installed by enableArrayExtensions under name
BoundCall(name) == op = "Array.prototype." \o name /\ arrayProto[name] = BoundMethod

\* the outcome recorded for r
SameOutcome(r) == ret = Returned(r, r.list, r.n)

\* C17: the methods installed on a prototype that had none of the five names
\* delegate to the core operations: A.where(F) = filterEntities(A, F),
\* A.first(F) = findFirst(A, F), A.exists(F) = matchExists(A, F), A.count(F) =
\* countWhere(A, F), A.findWhere(O) = findWhere(A, O), omitted F and O included.
C17_MethodsDelegate ==
    /\ BoundCall("where") => SameOutcome(filterEntities(entities, filter, registryAtCall))
    /\ BoundCall("first") => SameOutcome(findFirst(entities, filter, registryAtCall))
    /\ BoundCall("exists") => SameOutcome(matchExists(entities, filter, registryAtCall))
    /\ BoundCall("count") => SameOutcome(countWhere(entities, filter, registryAtCall))
    /\ BoundCall("findWhere") => SameOutcome(findWhere(entities, filter, opts, registryAtCall))

C17_Witness ==
    /\ BoundCall("first")
    /\ extCall.before = InitialArrayProto
    /\ \A n \in ExtensionNames : arrayProto[n] = BoundMethod
    /\ filter = eq("a", Num(1))
    /\ Len(entities) = 2
    /\ ret.v = "found" /\ ret.list = <<entities[2]>>

\* C18: enableArrayExtensions with overwrite absent or false replaces no
\* method that exists under one of the five names and installs the names that
\* were absent, each slot on its own; no other property is touched.
C18_NoOverwriteByDefault ==
    (op = "enableArrayExtensions" /\ Get(extCall.options, "overwrite") # Bool(TRUE)) =>
        \A n \in DOMAIN arrayProto :
            arrayProto[n] = IF n \in ExtensionNames /\ extCall.before[n] = NoMethod
                              THEN BoundMethod ELSE extCall.before[n]

C18_Witness ==
    /\ op = "enableArrayExtensions"
    /\ extCall.options = Undef
    /\ extCall.before["where"] = ForeignMethod /\ arrayProto["where"] = ForeignMethod
    /\ extCall.before["first"] = NoMethod /\ arrayProto["first"] = BoundMethod

RECURSIVE ElementEvaluations(_, _, _)

ElementEvaluationsFrom(entity, S, r) ==
    IF r.v = "throw" THEN <<r>> ELSE <<r>> \o ElementEvaluations(entity, Tail(S), r.reg)

\* the outcomes of evaluating the filters of S against entity one after the
\* other, each started with the registry the one before leaves, up to and
\* including the first that raises
ElementEvaluations(entity, S, reg) ==
    IF S = <<>> THEN <<>>
    ELSE ElementEvaluationsFrom(entity, S, evaluateCondition(entity, Head(S), reg))

\* "every element of S is true": the first outcome that is not true decides
AllTrue(res) ==
    LET others == {i \in 1..Len(res) : ~IsTruthy(res[i].v)}
    IN  IF others = {} THEN "true"
        ELSE IF res[Smallest(others)].v = "throw" THEN "throw" ELSE "false"

\* "at least one element of S is true": the first outcome that is not false decides
SomeTrue(res) ==
    LET others == {i \in 1..Len(res) : res[i].v # "false"}
    IN  IF others = {} THEN "false"
        ELSE IF res[Smallest(others)].v = "throw" THEN "throw" ELSE "true"

\* the sequence under the only key of a container { key: S }
IsContainer(f, key) == f.t = "object" /\ f.keys = <<key>> /\ f.kids[1].t = "array"

\* C21: { and: S } is true iff every element of S is true and { or: S } iff
\* at least one is, for sequences of any length; { and: [] } is true,
\* { or: [] } is false, and a bare sequence S evaluates like { and: S }.
C21_AndOrOverSequences ==
    Evaluated =>
        /\ IsContainer(filter, "and") =>
             ret.v = AllTrue(ElementEvaluations(Entity, filter.kids[1].kids, registryAtCall))
        /\ IsContainer(filter, "or") =>
             ret.v = SomeTrue(ElementEvaluations(Entity, filter.kids[1].kids, registryAtCall))
        /\ filter.t = "array" =>
             /\ ret.v = AllTrue(ElementEvaluations(Entity, filter.kids, registryAtCall))
             /\ ret.v = evaluateCondition(Entity, Obj(<<"and">>, <<filter>>), registryAtCall).v
        /\ filter = Obj(<<"and">>, <<Arr(<<>>)>>) => ret.v = "true"
        /\ filter = Obj(<<"or">>, <<Arr(<<>>)>>) => ret.v = "false"

C21_Witness ==
    /\ Evaluated
    /\ filter = Obj(<<"or">>, <<Arr(<<SingleCondition("a", "customOp", Num(1)), eq("a", Num(1))>>)>>)
    /\ Entity = Obj(<<"a">>, <<Num(1)>>)
    /\ LookupEvaluator(registryAtCall, "customOp") = NoEvaluator
    /\ ret.v = "true"

\* the field value, the condition value and the operator of the Single
\* Condition last evaluated
FieldValue == Get(Entity, Get(filter, "field").s)
ConditionValue == Get(filter, "value")
Operator == Get(filter, "operator").s

\* the primitive predicate named id applied to (x, value)
Primitive(id, x, value) ==
    CASE id = "eq" -> cond_eq(x, value)
      [] id = "ne" -> cond_ne(x, value)
      [] id = "lt" -> cond_lt(x, value)
      [] id = "lte" -> cond_lte(x, value)
      [] id = "gt" -> cond_gt(x, value)
      [] id = "gte" -> cond_gte(x, value)
      [] id = "anyOf" -> cond_anyOf(x, value)
      [] id = "contains" -> cond_contains(x, value)
      [] id = "startsWith" -> cond_startsWith(x, value)
      [] id = "endsWith" -> cond_endsWith(x, value)
      [] id = "minLength" -> cond_minLength(x, value)
      [] id = "maxLength" -> cond_maxLength(x, value)
      [] id = "truthy" -> cond_truthy(x)
      [] id = "isNull" -> cond_isNull(x)
      [] id = "isNotNull" -> cond_isNotNull(x)
      [] id = "matches" -> cond_matches(x, value)
      [] id = "isRecord" -> cond_isRecord(x)
      [] id = "matchesZodSchema" -> cond_matchesZodSchema(x, value)

\* the evaluation returned what one invocation of the evaluator registered
\* under the operator returns for (r[f], v, r, the condition); with the
\* built-in evaluator that is the primitive predicate applied to (r[f], v)
ReturnsWhatEvaluatorReturns ==
    /\ Len(SelectSeq(ret.events, LAMBDA e : e.ev = "invoke")) = 1
    /\ ret.events[1] = Event("invoke", registryAtCall[Operator], Operator, FieldValue,
                             ConditionValue, Entity, filter)
    /\ ret.v = InvokeEvaluator(registryAtCall[Operator], FieldValue, ConditionValue,
                               Entity, filter, registryAtCall).v
    /\ (Operator \in BuiltinOperators /\ registryAtCall[Operator] = Operator) =>
           /\ ret.v = Primitive(Operator, FieldValue, ConditionValue)
           /\ (Operator = "isNull" /\ ~HasKey(Entity, Get(filter, "field").s)) => ret.v = "true"
           /\ (Operator = "eq" /\ ~HasKey(Entity, Get(filter, "field").s)
                 /\ ConditionValue # Undef) => ret.v = "false"

\* C22 as stated: for every Single Condition whose operator has a registry
\* entry, evaluateCondition returns what the registered evaluator returns,
\* invoked once with (r[f], v, r, condition).
C22_ReturnsEvaluatorResult ==
    (Evaluated /\ IsSingleCondition(filter) /\ Operator \in DOMAIN registryAtCall) =>
        ReturnsWhatEvaluatorReturns

\* C22 amended: the same for every operator other than the reserved and, or,
\* not, under which a registered evaluator is never invoked.
C22_ReturnsEvaluatorResultUnlessReserved ==
    (Evaluated /\ IsSingleCondition(filter) /\ Operator \in DOMAIN registryAtCall
       /\ Operator \notin ReservedOperators) =>
        ReturnsWhatEvaluatorReturns

C22_Witness ==
    /\ Evaluated
    /\ filter = SingleCondition("b", "isNull", Undef)
    /\ Entity = Obj(<<"a">>, <<Num(1)>>)
    /\ registryAtCall = InitialEvaluators
    /\ ret.v = "true"
    /\ Len(ret.events) = 1

\* the built-in evaluator is the one registered under the operator of the
\* Single Condition last evaluated
BuiltinEvaluated(id) ==
    /\ Evaluated /\ IsSingleCondition(filter)
    /\ Operator = id /\ registryAtCall[id] = id

\* C23: the built-in predicates answer false, and do not raise, on operand
\* types they do not support: contains, minLength, maxLength on a field value
\* that is neither a string nor a sequence, startsWith and endsWith on one
\* that is not a string, anyOf on a condition value that is not a sequence,
\* matches on a field value that is not a string or on a pattern that is
\* neither a compiled pattern nor a valid pattern source.
C23_PredicatesFailClosed ==
    /\ \A id \in {"contains", "minLength", "maxLength"} :
         (BuiltinEvaluated(id) /\ FieldValue.t \notin {"string", "array"}) => ret.v = "false"
    /\ \A id \in {"startsWith", "endsWith"} :
         (BuiltinEvaluated(id) /\ FieldValue.t # "string") => ret.v = "false"
    /\ (BuiltinEvaluated("anyOf") /\ ConditionValue.t # "array") => ret.v = "false"
    /\ (BuiltinEvaluated("matches") /\ FieldValue.t # "string") => ret.v = "false"
    /\ (BuiltinEvaluated("matches") /\ ConditionValue.t # "regexp"
          /\ ~(ConditionValue.t = "string" /\ PatternCompiles(ConditionValue.s))) =>
             ret.v = "false"

C23_Witness ==
    /\ BuiltinEvaluated("matches")
    /\ FieldValue = Str("ab")
    /\ ConditionValue = Str("(")
    /\ ret.v = "false"

\* a non-null, non-array, non-date, non-regex object that carries neither
\* both `field` and `operator` nor an `and` or `or` key
ClassifiedPlain(f) ==
    /\ f.t \notin {"undefined", "null", "boolean", "number", "string"}
    /\ f.t \notin {"array", "date", "regexp"}
    /\ ~(HasKey(f, "field") /\ HasKey(f, "operator"))
    /\ ~HasKey(f, "and") /\ ~HasKey(f, "or")

\* C24: a filter is classified as a plain equality mapping iff it is a
\* non-null, non-array, non-date, non-regex object without both `field` and
\* `operator` and without an `and` or `or` key; so an object with `operator`
\* but no `field`, or `field` but no `operator`, is one, and an object with a
\* key `and` or `or` never is, whatever the key's value.
C24_ShapeRecognition ==
    Evaluated =>
        /\ isPlainRecord(filter) <=> ClassifiedPlain(filter)
        /\ (filter.t = "object" /\ HasKey(filter, "operator") /\ ~HasKey(filter, "field")
              /\ ~HasKey(filter, "and") /\ ~HasKey(filter, "or")) =>
               /\ isPlainRecord(filter)
               /\ ret.v = evaluateCondition(Entity, matchesAll(filter), registryAtCall).v
        /\ (filter.t = "object" /\ HasKey(filter, "field") /\ ~HasKey(filter, "operator")
              /\ ~HasKey(filter, "and") /\ ~HasKey(filter, "or")) =>
               /\ isPlainRecord(filter)
               /\ ret.v = evaluateCondition(Entity, matchesAll(filter), registryAtCall).v
        /\ (HasKey(filter, "and") \/ HasKey(filter, "or")) => ~isPlainRecord(filter)

C24_Witness ==
    /\ Evaluated
    /\ filter = Obj(<<"operator">>, <<Str("eq")>>)
    /\ registryAtCall = InitialEvaluators
    /\ isPlainRecord(filter)
    /\ ret.v = "false"
    /\ Len(ret.events) = 1 /\ ret.events[1].fieldValue = Undef

\* C25: the rules apply in order and the first that matches wins: an object
\* with an `and` sequence is the AND over that sequence whatever else it
\* carries; one with an `or` sequence and no `and` sequence is the OR over it;
\* only otherwise is `operator` looked at.
C25_FirstMatchingRuleWins ==
    (Evaluated /\ filter.t = "object") =>
        IF HasKey(filter, "and") /\ Get(filter, "and").t = "array"
          THEN ret.v = AllTrue(ElementEvaluations(Entity, Get(filter, "and").kids, registryAtCall))
        ELSE IF HasKey(filter, "or") /\ Get(filter, "or").t = "array"
          THEN ret.v = SomeTrue(ElementEvaluations(Entity, Get(filter, "or").kids, registryAtCall))
        ELSE (HasKey(filter, "and") \/ HasKey(filter, "or")) =>
               ret.v = evaluateCondition(Entity,
                           Obj(<<"field", "operator", "value">>,
                               <<Get(filter, "field"), Get(filter, "operator"),
                                 Get(filter, "value")>>),
                           registryAtCall).v

C25_Witness ==
    /\ Evaluated
    /\ filter = Obj(<<"or", "and">>, <<Arr(<<eq("a", Num(1))>>), Arr(<<eq("a", Num(2))>>)>>)
    /\ Entity = Obj(<<"a">>, <<Num(1)>>)
    /\ registryAtCall = InitialEvaluators
    /\ ret.v = "false"

RECURSIVE EventsUpTo(_, _)
\* the events of the first n outcomes of res, in order
EventsUpTo(res, n) ==
    IF n = 0 THEN <<>> ELSE EventsUpTo(res, n - 1) \o res[n].events

\* the number of elements evaluated when the first outcome in `deciding`
\* ends the evaluation
EvaluatedUpTo(res, deciding) ==
    LET ends == {i \in 1..Len(res) : res[i].v \in deciding}
    IN  IF ends = {} THEN Len(res) ELSE Smallest(ends)

\* the invocations and registrations the last evaluation made are those of the
\* elements of S up to the first whose outcome is in `deciding`
StopsAtFirst(S, deciding) ==
    LET res == ElementEvaluations(Entity, S, registryAtCall)
    IN  ret.events = EventsUpTo(res, EvaluatedUpTo(res, deciding))

\* C26: the combinators short-circuit in element order: a sequence, an `and`
\* container and an operator-'and' condition evaluate no element after the
\* first that is false, an `or` container and an operator-'or' condition none
\* after the first that is true.
C26_ShortCircuit ==
    Evaluated =>
        /\ filter.t = "array" => StopsAtFirst(filter.kids, {"false", "throw"})
        /\ IsContainer(filter, "and") => StopsAtFirst(filter.kids[1].kids, {"false", "throw"})
        /\ IsContainer(filter, "or") =>
             StopsAtFirst(filter.kids[1].kids, {"true", "truthy", "throw"})
        /\ (IsSingleCondition(filter) /\ Operator = "and" /\ ConditionValue.t = "array") =>
             StopsAtFirst(ConditionValue.kids, {"false", "throw"})
        /\ (IsSingleCondition(filter) /\ Operator = "or" /\ ConditionValue.t = "array") =>
             StopsAtFirst(ConditionValue.kids, {"true", "truthy", "throw"})
        /\ (filter.t = "object" /\ filter.keys = <<"operator", "value">>
              /\ Get(filter, "operator") \in {Str("and"), Str("or")}
              /\ ConditionValue.t = "array") =>
             \A j \in 1..Len(ret.events) :
                 \A i \in 1..Len(ConditionValue.kids) :
                     ret.events[j].condition # ConditionValue.kids[i]

C26_Witness ==
    /\ Evaluated
    /\ filter = Arr(<<eq("a", Num(1)), SingleCondition("a", "customOp", Num(1))>>)
    /\ Entity = Obj(<<"a", "b">>, <<Num(2), Num(1)>>)
    /\ registryAtCall = registerOperator(InitialEvaluators, "customOp", "alwaysTrue")
    /\ ret.v = "false"
    /\ Len(ret.events) = 1 /\ ret.events[1].operator = "eq"

\* the positions accepted by the scan of the last bulk operation, from the
\* (skip + 1)-th accepted one on
AcceptedAfter(skip) == {i \in Accepted : Cardinality({j \in Accepted : j <= i}) > skip}

\* C27: with a filter, findWhere scans R once, forward: each record is
\* evaluated at most once and in input order, the first `offset` accepted
\* records are skipped, and with a limit l > 0 the scan stops right after the
\* l-th record is collected, no later record being evaluated.
C27_SingleForwardScan ==
    (op = "findWhere" /\ ToBoolean(filter) /\ ret.v = "ok") =>
        LET skip == IF opts.hasOffset THEN opts.offset ELSE 0
            wanted == AcceptedAfter(skip)
            stops == opts.hasLimit /\ opts.limit > 0 /\ Cardinality(wanted) >= opts.limit
            last == IF stops THEN Nth(wanted, opts.limit) ELSE Len(entities)
        IN  /\ Len(ret.list) = (IF stops THEN opts.limit ELSE Cardinality(wanted))
            /\ \A k \in 1..Len(ret.list) : ret.list[k] = entities[Nth(wanted, k)]
            /\ (IsSingleCondition(filter) /\ Operator \in DOMAIN registryAtCall) =>
                   InvokedEntities = SubSeq(entities, 1, last)

C27_Witness ==
    /\ op = "findWhere"
    /\ filter = eq("a", Num(1))
    /\ opts = Options(TRUE, 1, TRUE, 1)
    /\ Len(entities) = 3
    /\ Accepted = {1, 2}
    /\ ret.list = <<entities[2]>>
    /\ Len(InvokedEntities) = 2

\* reg without the entries registered under the reserved identifiers
WithoutReserved(reg) == [k \in (DOMAIN reg) \ ReservedOperators |-> reg[k]]

\* C30: and, or and not are resolved before any registry lookup: whatever was
\* registered, under these identifiers too, a condition whose operator is one
\* of them evaluates as it does without those registrations, and the
\* evaluator registered under the identifier is never invoked.
C30_ReservedBeforeRegistry ==
    /\ (Evaluated /\ filter.t = "object"
          /\ Get(filter, "operator") \in {Str("and"), Str("or"), Str("not")}) =>
            ret.v = evaluateCondition(Entity, filter, WithoutReserved(registryAtCall)).v
    /\ \A j \in 1..Len(ret.events) :
          ret.events[j].ev = "invoke" => ret.events[j].operator \notin ReservedOperators

C30_Witness ==
    /\ Evaluated
    /\ filter = SingleCondition("a", "not", eq("a", Num(1)))
    /\ Entity = Obj(<<"a">>, <<Num(1)>>)
    /\ "not" \in DOMAIN registryAtCall /\ registryAtCall["not"] = "alwaysTrue"
    /\ registryAtCall["eq"] = "eq"
    /\ ret.v = "false"
    /\ Len(ret.events) = 1 /\ ret.events[1].fn = "eq"

----------------------------------------------------------------------------
(* Determinism and frame of the evaluating operations.                      *)

EvaluatingOperations ==
    {"evaluateCondition", "filterEntities", "findFirst", "matchExists", "countWhere",
     "findWhere"}

\* the registry held the built-in evaluators alone when the operation started
BuiltinsOnly == registryAtCall = InitialEvaluators

\* the filter object as the last operation leaves it
FilterAfterCall == FilterAfter(filter, ret.events)

Occurrences(list, x) == Cardinality({i \in 1..Len(list) : list[i] = x})

\* the last filterEntities kept every occurrence of a record or none
EqualRecordsAlike ==
    \A i \in 1..Len(entities) :
        Occurrences(ret.list, entities[i]) \in {0, Occurrences(entities, entities[i])}

\* C28: with the built-in evaluators, evaluateCondition(r, F) called again on
\* the same record and the same filter object returns what the first call
\* returned, whatever flags a compiled pattern of F carries, and
\* filterEntities keeps all the occurrences of a record or none of them.
C28_Deterministic ==
    /\ (Evaluated /\ BuiltinsOnly) =>
          evaluateCondition(Entity, FilterAfterCall, operatorEvaluators).v = ret.v
    /\ (op = "filterEntities" /\ BuiltinsOnly) => EqualRecordsAlike

\* C29: run with the built-in evaluators, an evaluating operation leaves the
\* registry as it was and the filter value as it was.
C29_Frame ==
    (op \in EvaluatingOperations /\ BuiltinsOnly) =>
        /\ operatorEvaluators = registryAtCall
        /\ FilterAfterCall = filter

====
